---- MODULE Spec2Model ----
(***************************************************************************)
(* reqbuilder: a helper that sends HTTP requests in tests.                 *)
(*                                                                         *)
(* The model follows src/reqbuilder.go.  A call of Request,                *)
(* MultipartRequest, RequestWithoutBody or SignIn is two steps of the      *)
(* calling goroutine: the code up to the hand-over of the request to       *)
(* b.client.Do (construction, headers, Authorization, cookies), and the    *)
(* code from the return of b.client.Do on (the assertion on the transport  *)
(* error, the cookie merge, the return).  The goroutine blocks only in     *)
(* between, so these are the points where calls of other goroutines on     *)
(* the same Builder interleave.  ReadResponseBody is one step.             *)
(***************************************************************************)
EXTENDS Integers, Sequences, FiniteSets, TLC

VARIABLES
    b,      \* the Builder: its client (with the client's cookie jar), t, require
    call,   \* per calling goroutine: the position and the locals of its call
    hist,   \* what the calling test keeps between calls, and history
    rd      \* one ReadResponseBody call: the response, the readers, the result

vars == <<b, call, hist, rd>>

(***************************************************************************)
(* Bounds of the model.                                                    *)
(***************************************************************************)
MaxCookies == 2        \* length of a caller's cookie list
MaxSetCookies == 2     \* number of cookies in one response
MaxCalls == 3          \* calls of one test that threads its cookie list
MaxLen == 2            \* length of a response payload in bytes

(***************************************************************************)
(* Values.                                                                 *)
(***************************************************************************)
SeqsUpTo(S, n) == UNION {[1..k -> S] : k \in 0..n}

Range(s) == {s[i] : i \in DOMAIN s}

\* The orders in which the elements of a finite set can be enumerated.
Orders(S) ==
    {o \in [1..Cardinality(S) -> S] : \A i, j \in 1..Cardinality(S) : o[i] = o[j] => i = j}

CookieNames == {"a", "b"}
CallerValues == {"1", "2"}
ServerValues == {"2", "3"}

\* An *http.Cookie, by the two fields the code and the wire use.
Cookie(n, v) == [Name |-> n, Value |-> v]

CallerCookies == {Cookie(n, v) : n \in CookieNames, v \in CallerValues}
ServerCookies == {Cookie(n, v) : n \in CookieNames, v \in ServerValues}

\* The cookies argument; a nil slice and an empty one are both <<>>
\* (the code tests cookies != nil && len(cookies) != 0, which is len != 0).
CookieLists == SeqsUpTo(CallerCookies, MaxCookies)

\* response.Cookies(): the cookies of the response's Set-Cookie headers, in order.
SetCookieLists == SeqsUpTo(ServerCookies, MaxSetCookies)

Names(cs) == {cs[i].Name : i \in DOMAIN cs}

EmptyMap == [k \in {} |-> ""]

\* The headers argument: a Go map from header names to values.
HeaderMaps ==
    { EmptyMap,
      "X-Trace" :> "h1",
      "Authorization" :> "h1",
      "authorization" :> "h1" @@ "Authorization" :> "h2",
      "content-type" :> "h1",
      "Content-Type" :> "h2" @@ "Cookie" :> "h1" }

Authorizations == {"", "Bearer t"}
Methods == {"POST", "BAD METHOD"}
Hosts == {"http://h"}
Endpoints == {"/p", "/%zz"}
Bodies == {"payload", "{}"}
FormFields == {"json", "file"}
Boundaries == {"bd1", "bd2"}

(***************************************************************************)
(* net/http and mime/multipart, as far as the code uses them.              *)
(***************************************************************************)
\* textproto.CanonicalMIMEHeaderKey, applied by Header.Set to the key.
CanonicalMIMEHeaderKey(k) ==
    CASE k = "authorization" -> "Authorization"
      [] k = "content-type" -> "Content-Type"
      [] k = "cookie" -> "Cookie"
      [] OTHER -> k

\* req.Header.Set(k, v)
HeaderSet(h, k, v) ==
    LET ck == CanonicalMIMEHeaderKey(k)
    IN [x \in DOMAIN h \cup {ck} |-> IF x = ck THEN v ELSE h[x]]

\* The request body: bytes.NewReader(reqBody), the multipart buffer, or nil.
RawBody(bytes) == [kind |-> "raw", data |-> bytes, boundary |-> "", parts |-> <<>>]
NilBody == [kind |-> "nil", data |-> "", boundary |-> "", parts |-> <<>>]

\* writer.WriteField(formData, string(requestBody)) and writer.Close() on a
\* multipart.Writer whose boundary NewWriter drew at random.
MultipartBody(boundary, formData, requestBody) ==
    [kind |-> "multipart", data |-> "", boundary |-> boundary,
     parts |-> <<[name |-> formData, value |-> requestBody]>>]

\* writer.FormDataContentType()
FormDataContentType(boundary) == "multipart/form-data; boundary=" \o boundary

NilRequest ==
    [nil |-> TRUE, Method |-> "", URL |-> "", Header |-> EmptyMap,
     Cookies |-> <<>>, Body |-> NilBody]

ValidMethod(method) == method \in {"", "GET", "POST", "PUT", "DELETE"}
ParseURL(url) == url # "http://h/%zz"

\* http.NewRequestWithContext: the request, or an error for a method that is
\* no token or a URL that does not parse.
NewRequestWithContext(method, url, body) ==
    IF ValidMethod(method) /\ ParseURL(url)
    THEN [req |-> [nil |-> FALSE, Method |-> method, URL |-> url,
                   Header |-> EmptyMap, Cookies |-> <<>>, Body |-> body],
          err |-> "nil"]
    ELSE [req |-> NilRequest, err |-> "construct"]

NilResponse == [nil |-> TRUE, SetCookies |-> <<>>]
Response(setCookies) == [nil |-> FALSE, SetCookies |-> setCookies]

NilJar == [nil |-> TRUE, cookies |-> <<>>]

\* Client.send: with a cookie jar, the jar's cookies are added to the request.
ClientSend(builder, req) ==
    IF builder.client.Jar.nil THEN req
    ELSE [req EXCEPT !.Cookies = @ \o builder.client.Jar.cookies]

\* Client.do: with a cookie jar, the response's cookies are stored in the jar.
ClientReceive(builder, resp) ==
    IF builder.client.Jar.nil \/ resp.SetCookies = <<>> THEN builder
    ELSE [builder EXCEPT !.client.Jar.cookies =
            resp.SetCookies \o
            SelectSeq(@, LAMBDA c : c.Name \notin Names(resp.SetCookies))]

\* What b.client.Do can come back with: a transport error or a response.
DoOutcomes(in) ==
    {[resp |-> NilResponse, err |-> "transport"]} \cup
    {[resp |-> Response(sc), err |-> "nil"] : sc \in in.setCookies}

(***************************************************************************)
(* The Builder.                                                            *)
(***************************************************************************)
NewWithJar ==
    [client |-> [Jar |-> [nil |-> FALSE, cookies |-> <<>>]],
     t |-> "nil", require |-> "require"]

\* New: a client without a cookie jar; t is left nil.
New ==
    [client |-> [Jar |-> NilJar], t |-> "nil", require |-> "require"]

NoErrorLogOnly(err) == TRUE

\* b.require.NoError(err): TRUE when the call goes on; with an error the
\* assertion calls t.FailNow, which ends the calling goroutine.
NoError(err) == err = "nil"

\* for k, v := range headers { req.Header.Set(k, v) }, in the order the
\* range statement happens to enumerate the map.
RECURSIVE SetHeaders(_, _, _)
SetHeaders(h, headers, order) ==
    IF order = <<>> THEN h
    ELSE SetHeaders(HeaderSet(h, Head(order), headers[Head(order)]), headers, Tail(order))

AttachHeaders(req, headers, order) ==
    [req EXCEPT !.Header = SetHeaders(@, headers, order)]

\* req.AddCookie(cookie) for each cookie, in order.
RECURSIVE AddCookies(_, _)
AddCookies(attached, cookies) ==
    IF cookies = <<>> THEN attached
    ELSE AddCookies(Append(attached, Head(cookies)), Tail(cookies))

AttachCookiesAlways(req, cookies, authorization) ==
    [req EXCEPT !.Header = HeaderSet(@, "Authorization", authorization),
                !.Cookies = AddCookies(@, cookies)]

\* if cookies != nil && len(cookies) != 0 { Authorization; AddCookie ... }
AttachCookies(req, cookies, authorization) ==
    IF Len(cookies) # 0
    THEN [req EXCEPT !.Header = HeaderSet(@, "Authorization", authorization),
                     !.Cookies = AddCookies(@, cookies)]
    ELSE req

MultipartHeadersHeadersLast(req, headers, order, boundary) ==
    AttachHeaders([req EXCEPT !.Header = HeaderSet(@, "Content-Type", FormDataContentType(boundary))],
                  headers, order)

\* MultipartRequest: the headers loop, then Content-Type.
MultipartHeaders(req, headers, order, boundary) ==
    LET r == AttachHeaders(req, headers, order)
    IN [r EXCEPT !.Header = HeaderSet(@, "Content-Type", FormDataContentType(boundary))]

(***************************************************************************)
(* The cookie merge.                                                       *)
(***************************************************************************)
MapPut(m, k, v) == [x \in DOMAIN m \cup {k} |-> IF x = k THEN v ELSE m[x]]

\* for _, c := range response.Cookies() { cookieMap[c.Name] = c }
RECURSIVE PutAll(_, _)
PutAll(m, cs) ==
    IF cs = <<>> THEN m
    ELSE PutAll(MapPut(m, Head(cs).Name, Head(cs)), Tail(cs))

\* for _, c := range cookies { if _, exists := cookieMap[c.Name]; !exists { ... } }
RECURSIVE PutAbsent(_, _)
PutAbsent(m, cs) ==
    IF cs = <<>> THEN m
    ELSE PutAbsent(IF Head(cs).Name \in DOMAIN m THEN m
                   ELSE MapPut(m, Head(cs).Name, Head(cs)), Tail(cs))

CookieMapCallerFirst(serverCookies, cookies) ==
    PutAbsent(PutAll(EmptyMap, cookies), serverCookies)

CookieMapLastCaller(serverCookies, cookies) ==
    LET m == PutAll(EmptyMap, serverCookies)
    IN PutAll(m, SelectSeq(cookies, LAMBDA c : c.Name \notin DOMAIN m))

\* cookieMap after both loops.
CookieMap(serverCookies, cookies) ==
    PutAbsent(PutAll(EmptyMap, serverCookies), cookies)

\* for _, c := range cookieMap { allCookies = append(allCookies, c) }: the
\* map's values in the order the range statement happens to enumerate them.
MapToSlices(m) ==
    {[i \in 1..Cardinality(DOMAIN m) |-> m[o[i]]] : o \in Orders(DOMAIN m)}

(***************************************************************************)
(* The calls.                                                              *)
(***************************************************************************)
MergingOps == {"Request", "MultipartRequest", "RequestWithoutBody"}

NoArgs ==
    [method |-> "", host |-> "", endpoint |-> "", reqBody |-> "", formData |-> "",
     cookies |-> <<>>, headers |-> EmptyMap, authorization |-> ""]

NilReturn == [nil |-> TRUE, response |-> NilResponse, cookies |-> <<>>]

\* A goroutine that is in no call and has made none.
IdleCall ==
    [pc |-> "idle", op |-> "", args |-> NoArgs, req |-> NilRequest,
     dispatched |-> FALSE, err |-> "nil", resp |-> NilResponse, ret |-> NilReturn,
     prior |-> {}]

\* The call after its first step: r is what NewRequestWithContext gave, req the
\* request with everything attached.  A failed assertion ends the goroutine
\* before anything is attached or sent.
Begun(op, args, r, req, in) ==
    IF NoError(r.err)
    THEN [pc |-> "sent", op |-> op, args |-> args, req |-> ClientSend(b, req),
          dispatched |-> TRUE, err |-> r.err, resp |-> NilResponse,
          ret |-> NilReturn, prior |-> in.prior]
    ELSE [pc |-> "aborted", op |-> op, args |-> args, req |-> NilRequest,
          dispatched |-> FALSE, err |-> r.err, resp |-> NilResponse,
          ret |-> NilReturn, prior |-> in.prior]

\* The call after its second step: o is what b.client.Do came back with,
\* cookies the list the call returns beside the response.
Ended(c, o, cookies) ==
    IF NoError(o.err)
    THEN [c EXCEPT !.pc = "returned", !.err = o.err, !.resp = o.resp,
                   !.ret = [nil |-> FALSE, response |-> o.resp, cookies |-> cookies]]
    ELSE [c EXCEPT !.pc = "aborted", !.err = o.err]

CanCall(p) == call[p].pc = "idle"

\* The test has used what the call returned and goes on; the call's frame is gone.
Continue(p) ==
    /\ call[p].pc = "returned"
    /\ call' = [call EXCEPT ![p] = IdleCall]
    /\ b' = b

\* Request, up to b.client.Do(req).
Request(p, in) ==
    /\ CanCall(p)
    /\ \E method \in in.methods, host \in Hosts, endpoint \in in.endpoints,
          reqBody \in in.bodies, cookies \in in.cookieLists,
          headers \in in.headerMaps, authorization \in in.auths :
         \E order \in Orders(DOMAIN headers) :
            LET args == [method |-> method, host |-> host, endpoint |-> endpoint,
                         reqBody |-> reqBody, formData |-> "", cookies |-> cookies,
                         headers |-> headers, authorization |-> authorization]
                r == NewRequestWithContext(method, host \o endpoint, RawBody(reqBody))
                req == AttachCookies(AttachHeaders(r.req, headers, order),
                                     cookies, authorization)
            IN call' = [call EXCEPT ![p] = Begun("Request", args, r, req, in)]
    /\ b' = b

\* Request, from the return of b.client.Do(req).
RequestReturn(p, in) ==
    /\ call[p].pc = "sent"
    /\ call[p].op = "Request"
    /\ \E o \in DoOutcomes(in) :
         /\ \E allCookies \in MapToSlices(CookieMap(o.resp.SetCookies, call[p].args.cookies)) :
              call' = [call EXCEPT ![p] = Ended(@, o, allCookies)]
         /\ b' = ClientReceive(b, o.resp)

\* MultipartRequest, up to b.client.Do(req).
MultipartRequest(p, in) ==
    /\ CanCall(p)
    /\ \E method \in in.methods, host \in Hosts, endpoint \in in.endpoints,
          requestBody \in in.bodies, formData \in in.fields,
          cookies \in in.cookieLists, headers \in in.headerMaps,
          authorization \in in.auths, boundary \in in.boundaries :
         \E order \in Orders(DOMAIN headers) :
            LET args == [method |-> method, host |-> host, endpoint |-> endpoint,
                         reqBody |-> requestBody, formData |-> formData,
                         cookies |-> cookies, headers |-> headers,
                         authorization |-> authorization]
                r == NewRequestWithContext(method, host \o endpoint,
                         MultipartBody(boundary, formData, requestBody))
                req == AttachCookies(MultipartHeaders(r.req, headers, order, boundary),
                                     cookies, authorization)
            IN call' = [call EXCEPT ![p] = Begun("MultipartRequest", args, r, req, in)]
    /\ b' = b

\* MultipartRequest, from the return of b.client.Do(req).
MultipartRequestReturn(p, in) ==
    /\ call[p].pc = "sent"
    /\ call[p].op = "MultipartRequest"
    /\ \E o \in DoOutcomes(in) :
         /\ \E allCookies \in MapToSlices(CookieMap(o.resp.SetCookies, call[p].args.cookies)) :
              call' = [call EXCEPT ![p] = Ended(@, o, allCookies)]
         /\ b' = ClientReceive(b, o.resp)

\* RequestWithoutBody, up to b.client.Do(req).
RequestWithoutBody(p, in) ==
    /\ CanCall(p)
    /\ \E method \in in.methods, host \in Hosts, endpoint \in in.endpoints,
          cookies \in in.cookieLists, headers \in in.headerMaps,
          authorization \in in.auths :
         \E order \in Orders(DOMAIN headers) :
            LET args == [method |-> method, host |-> host, endpoint |-> endpoint,
                         reqBody |-> "", formData |-> "", cookies |-> cookies,
                         headers |-> headers, authorization |-> authorization]
                r == NewRequestWithContext(method, host \o endpoint, NilBody)
                req == AttachCookies(AttachHeaders(r.req, headers, order),
                                     cookies, authorization)
            IN call' = [call EXCEPT ![p] = Begun("RequestWithoutBody", args, r, req, in)]
    /\ b' = b

\* RequestWithoutBody, from the return of b.client.Do(req).
RequestWithoutBodyReturn(p, in) ==
    /\ call[p].pc = "sent"
    /\ call[p].op = "RequestWithoutBody"
    /\ \E o \in DoOutcomes(in) :
         /\ \E allCookies \in MapToSlices(CookieMap(o.resp.SetCookies, call[p].args.cookies)) :
              call' = [call EXCEPT ![p] = Ended(@, o, allCookies)]
         /\ b' = ClientReceive(b, o.resp)

\* SignIn, up to b.client.Do(req): no cookies and no authorization argument.
SignIn(p, in) ==
    /\ CanCall(p)
    /\ \E method \in in.methods, host \in Hosts, endpoint \in in.endpoints,
          requestBody \in in.bodies, headers \in in.headerMaps :
         \E order \in Orders(DOMAIN headers) :
            LET args == [method |-> method, host |-> host, endpoint |-> endpoint,
                         reqBody |-> requestBody, formData |-> "", cookies |-> <<>>,
                         headers |-> headers, authorization |-> ""]
                r == NewRequestWithContext(method, host \o endpoint, RawBody(requestBody))
                req == AttachHeaders(r.req, headers, order)
            IN call' = [call EXCEPT ![p] = Begun("SignIn", args, r, req, in)]
    /\ b' = b

\* SignIn, from the return of b.client.Do(req): response.Cookies() as they are.
SignInReturn(p, in) ==
    /\ call[p].pc = "sent"
    /\ call[p].op = "SignIn"
    /\ \E o \in DoOutcomes(in) :
         /\ call' = [call EXCEPT ![p] = Ended(@, o, o.resp.SetCookies)]
         /\ b' = ClientReceive(b, o.resp)

(***************************************************************************)
(* One test goroutine, any arguments.                                      *)
(***************************************************************************)
NoHist ==
    [n |-> 0, initial |-> <<>>, carried |-> <<>>,
     lastSet |-> [x \in CookieNames |-> ""], ever |-> {}, done |-> 0,
     srvSet |-> {}]

NoRead ==
    [pc |-> "none", response |-> [ContentEncoding |-> "", Body |-> <<>>],
     zstdErr |-> FALSE, created |-> {}, closed |-> {},
     data |-> <<>>, dataNil |-> TRUE, err |-> "nil", test |-> "running"]

AnyInput ==
    [methods |-> Methods, endpoints |-> Endpoints, bodies |-> Bodies,
     fields |-> FormFields, boundaries |-> Boundaries,
     cookieLists |-> CookieLists, headerMaps |-> HeaderMaps,
     auths |-> Authorizations, setCookies |-> SetCookieLists, prior |-> {}]

Init ==
    /\ b = New
    /\ call = [p \in {"g1"} |-> IdleCall]
    /\ hist = NoHist
    /\ rd = NoRead

Next ==
    \/ \E p \in DOMAIN call : Request(p, AnyInput) /\ UNCHANGED <<hist, rd>>
    \/ \E p \in DOMAIN call : RequestReturn(p, AnyInput) /\ UNCHANGED <<hist, rd>>
    \/ \E p \in DOMAIN call : MultipartRequest(p, AnyInput) /\ UNCHANGED <<hist, rd>>
    \/ \E p \in DOMAIN call : MultipartRequestReturn(p, AnyInput) /\ UNCHANGED <<hist, rd>>
    \/ \E p \in DOMAIN call : RequestWithoutBody(p, AnyInput) /\ UNCHANGED <<hist, rd>>
    \/ \E p \in DOMAIN call : RequestWithoutBodyReturn(p, AnyInput) /\ UNCHANGED <<hist, rd>>
    \/ \E p \in DOMAIN call : SignIn(p, AnyInput) /\ UNCHANGED <<hist, rd>>
    \/ \E p \in DOMAIN call : SignInReturn(p, AnyInput) /\ UNCHANGED <<hist, rd>>
    \/ \E p \in DOMAIN call : Continue(p) /\ UNCHANGED <<hist, rd>>

Spec == Init /\ [][Next]_vars

(***************************************************************************)
(* Two test goroutines that share one Builder, with few arguments.  hist   *)
(* keeps the cookies that responses of completed calls have set, and a     *)
(* call notes at its start which were set before it.                       *)
(***************************************************************************)
FewInputs ==
    [methods |-> {"POST"}, endpoints |-> {"/p"}, bodies |-> {"payload"},
     fields |-> {"json"}, boundaries |-> {"bd1"},
     cookieLists |-> {<<>>, <<Cookie("a", "1")>>},
     headerMaps |-> {EmptyMap}, auths |-> {"Bearer t"},
     setCookies |-> {<<>>, <<Cookie("a", "3")>>, <<Cookie("b", "3")>>},
     prior |-> hist.srvSet]

\* The test's note of what the response of the call that just ended set.
NoteSet(p) ==
    /\ hist' = [hist EXCEPT !.srvSet = @ \cup Range(call'[p].resp.SetCookies)]
    /\ rd' = rd

InitConc ==
    /\ b = New
    /\ call = [p \in {"g1", "g2"} |-> IdleCall]
    /\ hist = NoHist
    /\ rd = NoRead

NextConc ==
    \/ \E p \in DOMAIN call : Request(p, FewInputs) /\ UNCHANGED <<hist, rd>>
    \/ \E p \in DOMAIN call : RequestReturn(p, FewInputs) /\ NoteSet(p)
    \/ \E p \in DOMAIN call : MultipartRequest(p, FewInputs) /\ UNCHANGED <<hist, rd>>
    \/ \E p \in DOMAIN call : MultipartRequestReturn(p, FewInputs) /\ NoteSet(p)
    \/ \E p \in DOMAIN call : RequestWithoutBody(p, FewInputs) /\ UNCHANGED <<hist, rd>>
    \/ \E p \in DOMAIN call : RequestWithoutBodyReturn(p, FewInputs) /\ NoteSet(p)
    \/ \E p \in DOMAIN call : SignIn(p, FewInputs) /\ UNCHANGED <<hist, rd>>
    \/ \E p \in DOMAIN call : SignInReturn(p, FewInputs) /\ NoteSet(p)
    \/ \E p \in DOMAIN call : Continue(p) /\ UNCHANGED <<hist, rd>>

SpecConc == InitConc /\ [][NextConc]_vars

(***************************************************************************)
(* One test that passes each returned cookie list to its next call.  hist  *)
(* keeps the list (initial at first, carried now), the number of calls     *)
(* begun (n) and returned (done), the names ever carried and, per name,    *)
(* the value the most recent response that set the name gave it.           *)
(***************************************************************************)
ThreadInputs ==
    [methods |-> Methods, endpoints |-> {"/p"}, bodies |-> {"payload"},
     fields |-> {"json"}, boundaries |-> {"bd1"},
     cookieLists |-> {hist.carried},
     headerMaps |-> {EmptyMap}, auths |-> {"Bearer t"},
     setCookies |-> SetCookieLists, prior |-> {}]

\* The value of the last cookie named x in a list that has one.
LastValue(cs, x) ==
    cs[CHOOSE i \in DOMAIN cs :
          cs[i].Name = x /\ \A j \in DOMAIN cs : cs[j].Name = x => j <= i].Value

\* The value of the first cookie named x in a list that has one.
FirstValue(cs, x) ==
    cs[CHOOSE i \in DOMAIN cs :
          cs[i].Name = x /\ \A j \in DOMAIN cs : cs[j].Name = x => i <= j].Value

Begin ==
    /\ hist.n < MaxCalls
    /\ hist' = [hist EXCEPT !.n = @ + 1]
    /\ rd' = rd

\* The test keeps the returned list for its next call.
Carry(p) ==
    /\ hist' = IF call'[p].pc = "returned"
               THEN [hist EXCEPT
                        !.carried = call'[p].ret.cookies,
                        !.done = @ + 1,
                        !.ever = @ \cup Names(call'[p].ret.cookies),
                        !.lastSet = [x \in CookieNames |->
                            IF x \in Names(call'[p].resp.SetCookies)
                            THEN LastValue(call'[p].resp.SetCookies, x) ELSE @[x]]]
               ELSE hist
    /\ rd' = rd

InitThread ==
    /\ b = New
    /\ call = [p \in {"g1"} |-> IdleCall]
    /\ \E cookies \in CookieLists :
         hist = [NoHist EXCEPT !.initial = cookies, !.carried = cookies,
                               !.ever = Names(cookies)]
    /\ rd = NoRead

NextThread ==
    \/ \E p \in DOMAIN call : Request(p, ThreadInputs) /\ Begin
    \/ \E p \in DOMAIN call : RequestReturn(p, ThreadInputs) /\ Carry(p)
    \/ \E p \in DOMAIN call : MultipartRequest(p, ThreadInputs) /\ Begin
    \/ \E p \in DOMAIN call : MultipartRequestReturn(p, ThreadInputs) /\ Carry(p)
    \/ \E p \in DOMAIN call : RequestWithoutBody(p, ThreadInputs) /\ Begin
    \/ \E p \in DOMAIN call : RequestWithoutBodyReturn(p, ThreadInputs) /\ Carry(p)
    \/ \E p \in DOMAIN call : Continue(p) /\ UNCHANGED <<hist, rd>>

SpecThread == InitThread /\ [][NextThread]_vars

(***************************************************************************)
(* ReadResponseBody.  The four formats are kept by their framing: what     *)
(* each reader checks when it is made and what it checks while it is read. *)
(* A body is a sequence of bytes; payload bytes are 0 and 1.               *)
(***************************************************************************)
Bytes == {0, 1}
Payloads == SeqsUpTo(Bytes, MaxLen)

RECURSIVE Sum(_)
Sum(s) == IF s = <<>> THEN 0 ELSE Head(s) + Sum(Tail(s))

Read(data, err) == [data |-> data, err |-> err]

\* Raw deflate: one final stored block, the length and then the bytes.
FlateEncode(p) == <<1, Len(p)>> \o p

\* Reading a flate.NewReader to its end: no check before the first block.
FlateDecode(s) ==
    IF Len(s) < 2 THEN Read(<<>>, "unexpected EOF")
    ELSE IF s[1] # 1 THEN Read(<<>>, "flate: corrupt input")
    ELSE IF s[2] > Len(s) - 2 THEN Read(SubSeq(s, 3, Len(s)), "unexpected EOF")
    ELSE Read(SubSeq(s, 3, 2 + s[2]), "nil")

\* gzip: the two magic bytes, the deflate stream, the checksum and the size.
GzipEncode(p) == <<31, 139>> \o FlateEncode(p) \o <<Sum(p), Len(p)>>

\* gzip.NewReader reads the header at once: its error for a missing or wrong one.
GzipNewReader(s) ==
    IF Len(s) < 2 THEN "unexpected EOF"
    ELSE IF s[1] # 31 \/ s[2] # 139 THEN "gzip: invalid header"
    ELSE "nil"

\* Reading a gzip.Reader to its end.
GzipDecode(s) ==
    LET f == FlateDecode(SubSeq(s, 3, Len(s)))
        n == Len(f.data)
    IN IF f.err # "nil" THEN f
       ELSE IF Len(s) < 6 + n THEN Read(f.data, "unexpected EOF")
       ELSE IF s[5 + n] # Sum(f.data) \/ s[6 + n] # n
            THEN Read(f.data, "gzip: invalid checksum")
       ELSE f

\* zstd: the magic number, then one raw block with its size.
ZstdEncode(p) == <<40, 181, Len(p)>> \o p

\* Reading a zstd.Decoder to its end: the frame header is checked on reading.
ZstdDecode(s) ==
    IF Len(s) < 3 THEN Read(<<>>, "unexpected EOF")
    ELSE IF s[1] # 40 \/ s[2] # 181 THEN Read(<<>>, "invalid input: magic number mismatch")
    ELSE IF s[3] > Len(s) - 3 THEN Read(SubSeq(s, 4, Len(s)), "unexpected EOF")
    ELSE Read(SubSeq(s, 4, 3 + s[3]), "nil")

\* Brotli: the window-size byte, one meta-block with its size, the empty last block.
BrotliEncode(p) == <<6, Len(p)>> \o p \o <<3>>

\* Reading a brotli.Reader to its end.
BrotliDecode(s) ==
    IF Len(s) < 2 THEN Read(<<>>, "unexpected EOF")
    ELSE IF s[1] # 6 THEN Read(<<>>, "brotli: corrupt input")
    ELSE IF s[2] > Len(s) - 3 THEN Read(SubSeq(s, 3, Len(s)), "unexpected EOF")
    ELSE IF s[3 + s[2]] # 3 THEN Read(SubSeq(s, 3, 2 + s[2]), "brotli: corrupt input")
    ELSE Read(SubSeq(s, 3, 2 + s[2]), "nil")

Encodings == {"gzip", "br", "zstd", "deflate"}

Encode(e, p) ==
    CASE e = "gzip" -> GzipEncode(p)
      [] e = "br" -> BrotliEncode(p)
      [] e = "zstd" -> ZstdEncode(p)
      [] e = "deflate" -> FlateEncode(p)
      [] OTHER -> p

\* response.Header.Get("Content-Encoding"): "" when the header is absent.
ContentEncodings == Encodings \cup {"", "identity", "GZIP"}

\* Response bodies: a payload as it is or in one of the formats, whole or cut short.
Encoded == {Encode(e, p) : e \in Encodings \cup {""}, p \in Payloads}
ResponseBodies == Encoded \cup {SubSeq(x, 1, Len(x) - 1) : x \in Encoded \ {<<>>}}

\* What the call gives back, with the readers it made and those it closed.
Result(created, closed, r) ==
    [created |-> created, closed |-> closed, data |-> r.data, dataNil |-> FALSE,
     err |-> r.err, test |-> "running"]

DecodeFailureFatal(err) ==
    [created |-> {}, closed |-> {}, data |-> <<>>, dataNil |-> TRUE,
     err |-> "nil", test |-> "aborted"]

\* return nil, err: no reader was made.
DecodeFailure(err) ==
    [created |-> {}, closed |-> {}, data |-> <<>>, dataNil |-> TRUE,
     err |-> err, test |-> "running"]

SwitchDeflateAsGzip(encoding) ==
    IF encoding \in {"gzip", "deflate"} THEN "gzip"
    ELSE IF encoding \in {"br", "zstd"} THEN encoding ELSE "default"

\* switch response.Header.Get("Content-Encoding"): the case taken.
Switch(encoding) ==
    IF encoding \in {"gzip", "br", "zstd", "deflate"} THEN encoding ELSE "default"

\* The body of ReadResponseBody: the switch, the deferred Close calls and
\* io.ReadBody(reader), which gives what was read before an error with the error.
ReadBody(response, zstdErr) ==
    LET body == response.Body
        case == Switch(response.ContentEncoding)
    IN CASE case = "gzip" ->
               IF GzipNewReader(body) # "nil" THEN DecodeFailure(GzipNewReader(body))
               ELSE Result({"gzip.Reader"}, {"gzip.Reader"}, GzipDecode(body))
         [] case = "br" ->
               Result({"BrotliReadCloser"}, {}, BrotliDecode(body))
         [] case = "zstd" ->
               IF zstdErr THEN DecodeFailure("zstd: decoder not created")
               ELSE Result({"zstd.Decoder"}, {"zstd.Decoder"}, ZstdDecode(body))
         [] case = "deflate" ->
               Result({"flate.Reader"}, {"flate.Reader"}, FlateDecode(body))
         [] OTHER ->
               Result({}, {}, Read(body, "nil"))

\* ReadResponseBody(response)
ReadResponseBody ==
    /\ rd.pc = "ready"
    /\ LET r == ReadBody(rd.response, rd.zstdErr)
       IN rd' = [rd EXCEPT !.pc = "returned", !.created = r.created,
                           !.closed = r.closed, !.data = r.data,
                           !.dataNil = r.dataNil, !.err = r.err, !.test = r.test]
    /\ UNCHANGED <<b, call, hist>>

\* A test holds a response; zstdErr says whether zstd.NewReader would report
\* an error for it.
InitRead ==
    /\ b = New
    /\ call = [p \in {"g1"} |-> IdleCall]
    /\ hist = NoHist
    /\ \E encoding \in ContentEncodings, body \in ResponseBodies, zstdErr \in BOOLEAN :
         rd = [NoRead EXCEPT !.pc = "ready",
                             !.response = [ContentEncoding |-> encoding, Body |-> body],
                             !.zstdErr = zstdErr]

NextRead == ReadResponseBody

SpecRead == InitRead /\ [][NextRead]_vars

(***************************************************************************)
(* Properties of the send operations, checked under Spec.                  *)
(***************************************************************************)
\* A list as a multiset: each entry with the number of times it occurs.
BagOfSeq(s) == [x \in Range(s) |-> Cardinality({i \in DOMAIN s : s[i] = x})]

\* The entries of a list that are the first of their name in it, as a multiset.
FirstOfName(cs) == {i \in DOMAIN cs : \A j \in 1..(i - 1) : cs[j].Name # cs[i].Name}
BagOfFirsts(cs) ==
    [x \in {cs[i] : i \in FirstOfName(cs)} |->
        Cardinality({i \in FirstOfName(cs) : cs[i] = x})]

Merged(c) == c.pc = "returned" /\ c.op \in MergingOps

\* C1: the cookie list a merging send operation returns has exactly one entry
\* for each name among the response's cookies and the caller's cookies and no
\* other entry, and the entry of a name the response set is a cookie of the
\* response, not the caller's.
C1_OnePerNameServerWins ==
    \A p \in DOMAIN call :
        LET c == call[p]
            out == c.ret.cookies
            all == Names(c.resp.SetCookies) \cup Names(c.args.cookies)
        IN Merged(c) =>
            /\ Names(out) = all
            /\ \A n \in all : Cardinality({i \in DOMAIN out : out[i].Name = n}) = 1
            /\ \A i \in DOMAIN out :
                 out[i].Name \in Names(c.resp.SetCookies) =>
                    out[i] \in Range(c.resp.SetCookies)

\* A merge in which the response and the caller give one name different values
\* and the caller also passes a name the response does not set.
C1_Witness ==
    \E p \in DOMAIN call :
        LET c == call[p]
        IN /\ Merged(c)
           /\ \E i \in DOMAIN c.resp.SetCookies, j \in DOMAIN c.args.cookies :
                /\ c.resp.SetCookies[i].Name = c.args.cookies[j].Name
                /\ c.resp.SetCookies[i].Value # c.args.cookies[j].Value
                /\ c.args.cookies[j].Value \notin {c.resp.SetCookies[k].Value :
                                                    k \in DOMAIN c.resp.SetCookies}
           /\ Names(c.args.cookies) \ Names(c.resp.SetCookies) # {}

Built(c) == c.pc = "sent" /\ c.op \in MergingOps

\* C2: on the request a merging send operation hands to the client, with a
\* non-empty cookie list the Authorization header is the authorization
\* argument and the attached cookies are the caller's, in order; with an empty
\* (or nil) list no cookie is attached and an Authorization header, if there is
\* one, is an Authorization entry of extraHeaders, so the argument is not on
\* the request.
C2_AuthorizationIffCookies ==
    \A p \in DOMAIN call :
        LET c == call[p]
            h == c.req.Header
        IN Built(c) =>
            IF Len(c.args.cookies) # 0
            THEN /\ "Authorization" \in DOMAIN h
                 /\ h["Authorization"] = c.args.authorization
                 /\ c.req.Cookies = c.args.cookies
            ELSE /\ c.req.Cookies = <<>>
                 /\ "Authorization" \in DOMAIN h =>
                      \E k \in DOMAIN c.args.headers :
                         /\ CanonicalMIMEHeaderKey(k) = "Authorization"
                         /\ h["Authorization"] = c.args.headers[k]

\* A request with cookies whose extraHeaders carry Authorization entries too.
C2_Witness ==
    \E p \in DOMAIN call :
        LET c == call[p]
        IN /\ Built(c)
           /\ Len(c.args.cookies) = 2
           /\ c.args.authorization = "Bearer t"
           /\ {"authorization", "Authorization"} \subseteq DOMAIN c.args.headers
           /\ c.req.Header["Authorization"] = "Bearer t"

\* C3 as stated: with a non-empty caller list and a response without cookies the
\* returned list has the caller's entries with the same multiplicity.
C3_CallerListUnchanged ==
    \A p \in DOMAIN call :
        LET c == call[p]
        IN (Merged(c) /\ c.args.cookies # <<>> /\ c.resp.SetCookies = <<>>) =>
              BagOfSeq(c.ret.cookies) = BagOfSeq(c.args.cookies)

\* C3 amended: with a non-empty caller list and a response without cookies the
\* returned list has, with the same multiplicity, the caller's entries that are
\* the first of their name in the caller's list; it is the caller's list
\* unchanged up to order when the caller's names are pairwise distinct.
C3_FirstOfEachNameKept ==
    \A p \in DOMAIN call :
        LET c == call[p]
        IN (Merged(c) /\ c.args.cookies # <<>> /\ c.resp.SetCookies = <<>>) =>
              /\ BagOfSeq(c.ret.cookies) = BagOfFirsts(c.args.cookies)
              /\ Cardinality(Names(c.args.cookies)) = Len(c.args.cookies) =>
                    BagOfSeq(c.ret.cookies) = BagOfSeq(c.args.cookies)

\* A merge of a caller list with one name twice, under different values, and a
\* response without cookies.
C3_Witness ==
    \E p \in DOMAIN call :
        LET c == call[p]
        IN /\ Merged(c)
           /\ c.resp.SetCookies = <<>>
           /\ Len(c.args.cookies) = 2
           /\ c.args.cookies[1].Name = c.args.cookies[2].Name
           /\ c.args.cookies[1].Value # c.args.cookies[2].Value
           /\ c.ret.cookies = <<c.args.cookies[1]>>

\* C4: in every send operation a construction error ends the call with
\* nothing dispatched, and a transport error ends it with no response read and
\* nothing merged; either way nothing is returned, and the goroutine that
\* called takes no further step (no retry, no recovery).
C4_ErrorsAbort ==
    \A p \in DOMAIN call :
        LET c == call[p]
        IN /\ c.err = "construct" =>
                c.pc = "aborted" /\ ~c.dispatched /\ c.req.nil /\ c.ret.nil
           /\ c.err = "transport" =>
                c.pc = "aborted" /\ c.resp.nil /\ c.ret.nil
           /\ c.pc = "aborted" =>
                /\ c.err # "nil"
                /\ ~ENABLED (\/ Request(p, AnyInput) \/ RequestReturn(p, AnyInput)
                             \/ MultipartRequest(p, AnyInput)
                             \/ MultipartRequestReturn(p, AnyInput)
                             \/ RequestWithoutBody(p, AnyInput)
                             \/ RequestWithoutBodyReturn(p, AnyInput)
                             \/ SignIn(p, AnyInput) \/ SignInReturn(p, AnyInput)
                             \/ Continue(p))

\* A call whose request was dispatched and whose transport failed.
C4_Witness ==
    \E p \in DOMAIN call :
        /\ call[p].pc = "aborted"
        /\ call[p].err = "transport"
        /\ call[p].dispatched
        /\ call[p].op = "SignIn"

\* C8: the request MultipartRequest hands to the client has the Content-Type
\* multipart/form-data with the boundary of its own body, whatever extraHeaders
\* name, and the body is one form field, named by the field-name argument,
\* whose value is the payload.
C8_MultipartContentType ==
    \A p \in DOMAIN call :
        LET c == call[p]
        IN (c.pc = "sent" /\ c.op = "MultipartRequest") =>
              /\ c.req.Body.kind = "multipart"
              /\ c.req.Body.boundary \in Boundaries
              /\ "Content-Type" \in DOMAIN c.req.Header
              /\ c.req.Header["Content-Type"] =
                    "multipart/form-data; boundary=" \o c.req.Body.boundary
              /\ c.req.Body.parts =
                    <<[name |-> c.args.formData, value |-> c.args.reqBody]>>

\* A multipart request whose extraHeaders name Content-Type themselves.
C8_Witness ==
    \E p \in DOMAIN call :
        LET c == call[p]
        IN /\ c.pc = "sent"
           /\ c.op = "MultipartRequest"
           /\ \E k \in DOMAIN c.args.headers :
                CanonicalMIMEHeaderKey(k) = "Content-Type"
           /\ c.args.formData = "json"
           /\ c.args.reqBody = "payload"
           /\ c.req.Body.boundary = "bd2"

C10_CarriedList ==
    hist.done >= 1 =>
        /\ \A i, j \in DOMAIN hist.carried :
              hist.carried[i].Name = hist.carried[j].Name => i = j
        /\ hist.ever \cup Names(hist.initial) \subseteq Names(hist.carried)
        /\ \A i \in DOMAIN hist.carried :
              LET x == hist.carried[i].Name
              IN hist.carried[i].Value =
                    IF hist.lastSet[x] # "" THEN hist.lastSet[x]
                    ELSE FirstValue(hist.initial, x)

\* Three calls have returned: an earlier response set a name that the last
\* response did not, and a name that the initial list has twice was set by none.
C10_Witness ==
    /\ hist.done = 3
    /\ call["g1"].pc = "returned"
    /\ Len(hist.initial) = 2
    /\ hist.initial[1].Name = hist.initial[2].Name
    /\ hist.initial[1].Value # hist.initial[2].Value
    /\ hist.lastSet[hist.initial[1].Name] = ""
    /\ \E x \in CookieNames :
         /\ hist.lastSet[x] = "3"
         /\ x \notin Names(call["g1"].resp.SetCookies)
    /\ Len(hist.carried) = 2

(***************************************************************************)
(* Properties of ReadResponseBody, checked under SpecRead.                 *)
(***************************************************************************)
\* C5: whatever the Content-Encoding and whether the read succeeded or not,
\* every reader the call made for the response, the Brotli wrapper included,
\* has been closed when the call has returned.
C5_ReadersReleased ==
    rd.pc = "returned" => rd.created \subseteq rd.closed

\* C6: a body that is a payload in one of the four formats, under that
\* format's Content-Encoding, comes back as the payload without an error (the
\* zstd decoder being one that zstd.NewReader could make); a body under no
\* Content-Encoding, or under another value, comes back as it is.
C6_RoundTrip ==
    rd.pc = "returned" =>
        /\ \A e \in Encodings, p \in Payloads :
              (/\ rd.response.ContentEncoding = e
               /\ rd.response.Body = Encode(e, p)
               /\ ~(e = "zstd" /\ rd.zstdErr))
              => rd.data = p /\ rd.err = "nil" /\ ~rd.dataNil
        /\ rd.response.ContentEncoding \notin Encodings =>
              rd.data = rd.response.Body /\ rd.err = "nil"

\* A deflate body of two bytes read back.
C6_Witness ==
    /\ rd.pc = "returned"
    /\ rd.response.ContentEncoding = "deflate"
    /\ rd.response.Body = FlateEncode(<<1, 0>>)
    /\ rd.data = <<1, 0>>
    /\ rd.err = "nil"

\* C7: ReadResponseBody never aborts the test, and under gzip with an invalid
\* stream header, or under zstd when the decoder cannot be made, it returns an
\* error and a nil payload.
C7_DecodeErrorReturned ==
    /\ rd.test = "running"
    /\ (/\ rd.pc = "returned"
        /\ \/ /\ rd.response.ContentEncoding = "gzip"
              /\ \/ Len(rd.response.Body) < 2
                 \/ <<rd.response.Body[1], rd.response.Body[2]>> # <<31, 139>>
           \/ rd.response.ContentEncoding = "zstd" /\ rd.zstdErr)
       => rd.err # "nil" /\ rd.dataNil /\ rd.data = <<>>

\* A gzip response whose body is not a gzip stream.
C7_Witness ==
    /\ rd.pc = "returned"
    /\ rd.response.ContentEncoding = "gzip"
    /\ rd.response.Body = <<0, 1>>
    /\ rd.err = "gzip: invalid header"
    /\ rd.dataNil

====
